---- MODULE Spec2Model ----
(***************************************************************************)
(* Model of the node-based conversation history (openaiapi/history.py),    *)
(* the usage log (openaiapi/metrics.py) and the Chat session that drives   *)
(* them (oiaapi/__init__.py).                                              *)
(*                                                                         *)
(* Spec      : the public ConversationHistory API called directly          *)
(*             (add_system, add_user, add_assistant with any id, toggle,   *)
(*             clear) plus Chat.set_system_prompt.                         *)
(* SpecChat  : one Chat session used through its own operations (chat,     *)
(*             clear, set_system_prompt, set_model) and history.toggle /   *)
(*             history.clear.                                              *)
(***************************************************************************)
EXTENDS Integers, Sequences, FiniteSets, TLC

VARIABLES
    nodes,      \* ConversationHistory._nodes : sequence of node records
    next_id,    \* ConversationHistory._next_id
    records,    \* Metrics._records
    model,      \* Chat.model
    last,       \* the call that produced this state: arguments, result, error
    failed,     \* ids of the user nodes recorded by Chat.chat calls that failed
    other,      \* a second Chat session: how it was made, its model, history, metrics
    client,     \* a ChatClient of the minimal variant: history and usage_details
    calls       \* the Chat.chat calls under way on the session, each with its locals

vars == <<nodes, next_id, records, model, last, failed, other, client, calls>>

(***************************************************************************)
(* Bounds of the model.                                                    *)
(***************************************************************************)
MaxNodes == 4   \* nodes the store may hold before the add operations stop
MaxShared == 2  \* the same, per node list, where two sessions are followed
MaxEntries == 4 \* entries of ChatClient.history, and of its usage_details

(***************************************************************************)
(* Values.                                                                 *)
(***************************************************************************)
\* A content is plain text or an ordered list of encoded fragments.
Text(s) == [kind |-> "str", text |-> s, parts |-> <<>>]
Fragments(fs) == [kind |-> "list", text |-> "", parts |-> fs]

\* Message parts a caller may pass to Chat.chat.
StrPart(s) == [type |-> "str", data |-> s]
ImagePart(u) == [type |-> "ContentPart", data |-> u]
BadPart == [type |-> "int", data |-> "7"]

\* Image.encode for a remote url: {"type": "image_url", "image_url": {...}}
encode(part) == [type |-> "image_url", data |-> part.data]

SystemTexts == {"S1", "S2"}
UserTexts == {"hi"}
Replies == {"hello"}
Models == {"gpt-5-mini", "gpt-4o"}
Desired == {"True", "False", "None"}
Usages == {"none", "u1"}      \* response.usage: absent, or a usage report

\* Argument tuples of Chat.chat: none, one text, and tuples holding a part
\* that is neither a string nor a ContentPart.
PartSeqs ==
    {<<>>, <<StrPart("hi")>>, <<BadPart>>,
     <<StrPart("hi"), BadPart>>, <<ImagePart("http://img"), BadPart>>}

Node(id, role, content, active) ==
    [id |-> id, role |-> role, content |-> content, active |-> active]

Message(role, content) == [role |-> role, content |-> content]

History(ns, nid) == [nodes |-> ns, next_id |-> nid]

\* What a finished call leaves behind for inspection.
Call(op) ==
    [op |-> op, on |-> "self", id |-> -1, desired |-> "None", flag |-> FALSE,
     parts |-> <<>>, ok |-> FALSE, usage |-> "none", ret |-> -1,
     err |-> "", sent |-> FALSE, messages |-> <<>>]

(***************************************************************************)
(* ConversationHistory                                                     *)
(***************************************************************************)
\* _new_id: hand out the current counter value and advance the counter.
new_id(h) == [ret |-> h.next_id, h |-> History(h.nodes, h.next_id + 1)]

\* Mutant: the earlier system nodes are left as they are.
deactivate_systems_skipped(ns) == ns

\* The loop "for node in nodes: if system and active: active = False".
deactivate_systems(ns) ==
    [i \in 1..Len(ns) |->
        IF ns[i].role = "system" /\ ns[i].active
        THEN [ns[i] EXCEPT !.active = FALSE]
        ELSE ns[i]]

add_system(h, content) ==
    LET off == deactivate_systems(h.nodes)
        n == new_id(History(off, h.next_id))
    IN [ret |-> n.ret,
        h |-> History(Append(n.h.nodes, Node(n.ret, "system", content, TRUE)),
                      n.h.next_id)]

\* Mutant: the user node is recorded active at once.
add_user_active(h, content) ==
    LET n == new_id(h)
    IN [ret |-> n.ret,
        h |-> History(Append(n.h.nodes, Node(n.ret, "user", content, TRUE)),
                      n.h.next_id)]

add_user(h, content) ==
    LET n == new_id(h)
    IN [ret |-> n.ret,
        h |-> History(Append(n.h.nodes, Node(n.ret, "user", content, FALSE)),
                      n.h.next_id)]

Min(S) == CHOOSE x \in S : \A y \in S : x <= y
Max(S) == CHOOSE x \in S : \A y \in S : x >= y

\* Mutant: the assistant node is appended but its user node is not activated.
add_assistant_user_left_inactive(h, node_id, content) ==
    [err |-> "",
     h |-> History(Append(h.nodes, Node(node_id, "assistant", content, TRUE)),
                   h.next_id)]

\* Mutant: the reply goes to the user node registered last, whatever the id.
add_assistant_to_last_user(h, node_id, content) ==
    LET users == {i \in 1..Len(h.nodes) : h.nodes[i].role = "user"}
        target == IF users = {} THEN node_id ELSE h.nodes[Max(users)].id
    IN [err |-> "",
        h |-> History(
            Append([i \in 1..Len(h.nodes) |->
                        IF i \in users /\ h.nodes[i].id = target
                        THEN [h.nodes[i] EXCEPT !.active = TRUE]
                        ELSE h.nodes[i]],
                   Node(target, "assistant", content, TRUE)),
            h.next_id)]

add_assistant(h, node_id, content) ==
    LET ns == Append(h.nodes, Node(node_id, "assistant", content, TRUE))
        users == {i \in 1..Len(ns) : ns[i].id = node_id /\ ns[i].role = "user"}
    IN [err |-> "",
        h |-> History(
            IF users = {} THEN ns
            ELSE [ns EXCEPT ![Min(users)].active = TRUE],
            h.next_id)]

new_state(active, current) ==
    IF active = "None" THEN ~current ELSE active = "True"

\* Mutant: activating a system node leaves the other system nodes alone.
deactivate_other_systems_skipped(ns, node_id) == ns

\* toggle, lines 112-116: every system node with another id goes inactive.
deactivate_other_systems(ns, node_id) ==
    [i \in 1..Len(ns) |->
        IF ns[i].role = "system" /\ ns[i].id # node_id
        THEN [ns[i] EXCEPT !.active = FALSE]
        ELSE ns[i]]

\* Mutant: the completeness of the pair is not checked.
pair_complete_unchecked(roles_in_id) == TRUE

\* toggle, lines 119-120: both roles of the pair are present.
pair_complete(roles_in_id) == {"user", "assistant"} \subseteq roles_in_id

\* Mutant: only the user node of the pair takes the new state.
set_pair_user_only(ns, nodes_with_id, st) ==
    [i \in 1..Len(ns) |->
        IF i \in nodes_with_id /\ ns[i].role = "user"
        THEN [ns[i] EXCEPT !.active = st]
        ELSE ns[i]]

\* toggle, lines 129-130: every node carrying the id takes the new state.
set_pair(ns, nodes_with_id, st) ==
    [i \in 1..Len(ns) |->
        IF i \in nodes_with_id THEN [ns[i] EXCEPT !.active = st] ELSE ns[i]]

toggle(h, node_id, active) ==
    LET ns == h.nodes
        nodes_with_id == {i \in 1..Len(ns) : ns[i].id = node_id}
    IN IF nodes_with_id = {} THEN [err |-> "ValueError", h |-> h]
       ELSE LET first_node == Min(nodes_with_id) IN
         IF ns[first_node].role = "system"
         THEN LET st == new_state(active, ns[first_node].active)
                  set == [ns EXCEPT ![first_node].active = st]
              IN [err |-> "",
                  h |-> History(
                    IF st THEN deactivate_other_systems(set, node_id) ELSE set,
                    h.next_id)]
         ELSE LET roles_in_id == {ns[i].role : i \in nodes_with_id} IN
           IF ~pair_complete(roles_in_id)
           THEN [err |-> "ValueError", h |-> h]
           ELSE LET reference == Min({i \in nodes_with_id : ns[i].role = "user"})
                    st == new_state(active, ns[reference].active)
                IN [err |-> "",
                    h |-> History(set_pair(ns, nodes_with_id, st), h.next_id)]

\* Mutant: a hard clear, the dialogue nodes are removed from the list.
clear_deleting_nodes(h, include_system) ==
    History(SelectSeq(h.nodes, LAMBDA n : n.role = "system" /\ ~include_system),
            h.next_id)

\* Mutant: include_system is not consulted, system nodes go inactive too.
clear_ignoring_flag(h, include_system) ==
    History([i \in 1..Len(h.nodes) |-> [h.nodes[i] EXCEPT !.active = FALSE]],
            h.next_id)

clear(h, include_system) ==
    History(
        [i \in 1..Len(h.nodes) |->
            IF h.nodes[i].role = "system" /\ ~include_system
            THEN h.nodes[i]
            ELSE [h.nodes[i] EXCEPT !.active = FALSE]],
        h.next_id)

\* First loop of build_messages: the last active system node seen, 0 if none.
RECURSIVE last_system(_, _, _)
last_system(ns, i, found) ==
    IF i > Len(ns) THEN found
    ELSE last_system(ns, i + 1,
            IF ns[i].role = "system" /\ ns[i].active THEN i ELSE found)

\* Mutant: the active flag is not consulted.
RECURSIVE dialogue_with_inactive(_, _)
dialogue_with_inactive(ns, i) ==
    IF i > Len(ns) THEN <<>>
    ELSE (IF ns[i].role \in {"user", "assistant"}
          THEN <<Message(ns[i].role, ns[i].content)>>
          ELSE <<>>) \o dialogue_with_inactive(ns, i + 1)

\* Second loop of build_messages: active user/assistant nodes in store order.
RECURSIVE dialogue(_, _)
dialogue(ns, i) ==
    IF i > Len(ns) THEN <<>>
    ELSE (IF ns[i].role \in {"user", "assistant"} /\ ns[i].active
          THEN <<Message(ns[i].role, ns[i].content)>>
          ELSE <<>>) \o dialogue(ns, i + 1)

build_messages(h) ==
    LET s == last_system(h.nodes, 1, 0)
    IN (IF s # 0 THEN <<Message("system", h.nodes[s].content)>> ELSE <<>>)
       \o dialogue(h.nodes, 1)

\* Mutant: the ids seen are not remembered, a pair is listed twice.
get_active_node_ids_repeating(h) ==
    LET act == SelectSeq(h.nodes, LAMBDA n : n.active)
    IN [i \in 1..Len(act) |-> act[i].id]

RECURSIVE active_ids_from(_, _, _)
active_ids_from(ns, i, seen) ==
    IF i > Len(ns) THEN <<>>
    ELSE IF ns[i].active /\ ns[i].id \notin seen
         THEN <<ns[i].id>> \o active_ids_from(ns, i + 1, seen \cup {ns[i].id})
         ELSE active_ids_from(ns, i + 1, seen)

get_active_node_ids(h) == active_ids_from(h.nodes, 1, {})

(***************************************************************************)
(* Metrics                                                                 *)
(***************************************************************************)
\* Mutant: the cumulative policy, one running record instead of a log.
log_cumulative(recs, usage_dict, mdl, active_node_ids) ==
    <<[model |-> mdl, active_nodes |-> active_node_ids, usage |-> usage_dict]>>

log(recs, usage_dict, mdl, active_node_ids) ==
    Append(recs, [model |-> mdl, active_nodes |-> active_node_ids,
                  usage |-> usage_dict])

metrics_clear(recs) == <<>>

(***************************************************************************)
(* Chat                                                                    *)
(***************************************************************************)
\* The argument None of set_system_prompt.
NoPrompt == [kind |-> "None", text |-> "", parts |-> <<>>]

\* Mutant: None switches the whole history off, not the system prompt alone.
set_system_prompt_clearing(h, system_prompt) ==
    IF system_prompt = NoPrompt
    THEN clear(h, TRUE)
    ELSE add_system(h, system_prompt).h

set_system_prompt(h, system_prompt) ==
    IF system_prompt = NoPrompt
    THEN History(deactivate_systems(h.nodes), h.next_id)
    ELSE add_system(h, system_prompt).h

\* Mutant: the parts are taken as they come, none is refused.
chat_content_unvalidated(messages) ==
    [err |-> "",
     content |-> Fragments([i \in 1..Len(messages) |->
                                [type |-> "text", data |-> messages[i].data]])]

\* Lines 95-110 of Chat.chat: the content built from the positional parts.
chat_content(messages) ==
    IF Len(messages) = 0 THEN [err |-> "ValueError", content |-> Text("")]
    ELSE IF Len(messages) = 1 /\ messages[1].type = "str"
    THEN [err |-> "", content |-> Text(messages[1].data)]
    ELSE IF \E i \in 1..Len(messages) :
                messages[i].type \notin {"str", "ContentPart"}
    THEN [err |-> "ValueError", content |-> Text("")]
    ELSE [err |-> "",
          content |-> Fragments(
            [i \in 1..Len(messages) |->
                IF messages[i].type = "str"
                THEN [type |-> "text", data |-> messages[i].data]
                ELSE encode(messages[i])])]

\* Chat.chat as one call. response is what the completion boundary does with
\* the request: [ok |-> FALSE] when it raises, else a reply and a usage.
chat(h, recs, mdl, messages, response) ==
    LET built == chat_content(messages) IN
    IF built.err # ""
    THEN [h |-> h, records |-> recs, err |-> built.err, ret |-> -1,
          sent |-> FALSE, messages |-> <<>>, reply |-> ""]
    ELSE
    LET user == add_user(h, built.content)
        user_node_id == user.ret
        api_messages == Append(build_messages(user.h),
                               Message("user", built.content))
        active_ids == Append(get_active_node_ids(user.h), user_node_id)
    IN IF ~response.ok
       THEN [h |-> user.h, records |-> recs, err |-> "RuntimeError",
             ret |-> user_node_id, sent |-> TRUE, messages |-> api_messages,
             reply |-> ""]
       ELSE [h |-> add_assistant(user.h, user_node_id, Text(response.reply)).h,
             records |-> IF response.usage # "none"
                         THEN log(recs, response.usage, mdl, active_ids)
                         ELSE recs,
             err |-> "", ret |-> user_node_id, sent |-> TRUE,
             messages |-> api_messages, reply |-> response.reply]

chat_clear(h, recs, include_system) ==
    [h |-> clear(h, include_system), records |-> metrics_clear(recs)]

(***************************************************************************)
(* ChatClient, the minimal variant: a plain list of role/content entries.  *)
(***************************************************************************)
\* ChatClient.__init__ without a system prompt.
NewChatClient == [history |-> <<>>, usage_details |-> <<>>]

ChatClient_add_to_history(c, role, content) ==
    [c EXCEPT !.history = Append(@, Message(role, content))]

has_system(c) == c.history # <<>> /\ c.history[1].role = "system"

ChatClient_set_system_prompt(c, system_prompt) ==
    IF system_prompt = NoPrompt
    THEN IF has_system(c) THEN [c EXCEPT !.history = Tail(@)] ELSE c
    ELSE IF has_system(c)
    THEN [c EXCEPT !.history[1].content = system_prompt]
    ELSE [c EXCEPT !.history = <<Message("system", system_prompt)>> \o @]

ChatClient_clear_history(c) ==
    [c EXCEPT !.history = IF has_system(c) THEN <<c.history[1]>> ELSE <<>>]

\* Mutant: the entry of the request that failed stays in the list.
pop_user_skipped(hist) == hist

\* The except branch of ChatClient.chat: the last entry goes if it is a user
\* entry.
pop_user(hist) ==
    IF hist # <<>> /\ hist[Len(hist)].role = "user"
    THEN SubSeq(hist, 1, Len(hist) - 1) ELSE hist

\* ChatClient.chat as one call; the content is built as in Chat.chat, and the
\* request carries the history list itself.
ChatClient_chat(c, messages, response) ==
    LET built == chat_content(messages) IN
    IF built.err # ""
    THEN [c |-> c, err |-> built.err, sent |-> FALSE, messages |-> <<>>]
    ELSE
    LET asked == ChatClient_add_to_history(c, "user", built.content) IN
    IF ~response.ok
    THEN [c |-> [asked EXCEPT !.history = pop_user(@)],
          err |-> "RuntimeError", sent |-> TRUE, messages |-> asked.history]
    ELSE LET answered == ChatClient_add_to_history(asked, "assistant",
                                                   Text(response.reply))
         IN [c |-> IF response.usage # "none"
                   THEN [answered EXCEPT
                            !.usage_details = Append(@, response.usage)]
                   ELSE answered,
             err |-> "", sent |-> TRUE, messages |-> asked.history]

(***************************************************************************)
(* Sessions as objects. A list is held through a handle: "nodes" and       *)
(* "records" are the two lists of the first session, "own" is a list that  *)
(* belongs to the holder alone and is kept in the handle.                  *)
(***************************************************************************)
Handle(ref, items) == [ref |-> ref, items |-> items]

Deref(l) ==
    CASE l.ref = "nodes" -> nodes
      [] l.ref = "records" -> records
      [] OTHER -> l.items

\* json.dump and json.load: integers travel as digits, booleans as the words
\* true and false, strings as they are; json.load builds new lists.
ParseInt(str) == CHOOSE n \in 0..(MaxNodes + 1) : ToString(n) = str
\* Mutant: every node is read back as active.
ParseBool_always_true(str) == TRUE

ParseBool(str) == str = "true"

json_dump(data) ==
    [model |-> data.model,
     next_id |-> ToString(data.history.next_id),
     nodes |->
        LET ns == Deref(data.history.nodes) IN
        [i \in 1..Len(ns) |->
            [id |-> ToString(ns[i].id), role |-> ns[i].role,
             content |-> ns[i].content,
             active |-> IF ns[i].active THEN "true" ELSE "false"]],
     records |->
        LET rs == Deref(data.metrics.records) IN
        [i \in 1..Len(rs) |->
            [model |-> rs[i].model, usage |-> rs[i].usage,
             active_nodes |->
                [k \in 1..Len(rs[i].active_nodes) |->
                    ToString(rs[i].active_nodes[k])]]]]

json_load(doc) ==
    [model |-> doc.model,
     history |->
        [nodes |-> Handle("own",
            [i \in 1..Len(doc.nodes) |->
                Node(ParseInt(doc.nodes[i].id), doc.nodes[i].role,
                     doc.nodes[i].content, ParseBool(doc.nodes[i].active))]),
         next_id |-> ParseInt(doc.next_id)],
     metrics |->
        [records |-> Handle("own",
            [i \in 1..Len(doc.records) |->
                [model |-> doc.records[i].model,
                 active_nodes |->
                    [k \in 1..Len(doc.records[i].active_nodes) |->
                        ParseInt(doc.records[i].active_nodes[k])],
                 usage |-> doc.records[i].usage]])]]

\* Mutant: the copy keeps the list of the history it was made from.
deepcopy_sharing_nodes(history) == history

\* ConversationHistory.deepcopy: a new list holding copies of the nodes.
deepcopy(history) ==
    [nodes |-> Handle("own", Deref(history.nodes)), next_id |-> history.next_id]

\* to_dict hands out the list itself, from_dict keeps the list it is given.
to_dict(history) == [nodes |-> history.nodes, next_id |-> history.next_id]

from_dict(data) == [nodes |-> data.nodes, next_id |-> data.next_id]

metrics_deepcopy(metrics) == [records |-> Handle("own", Deref(metrics.records))]

metrics_to_dict(metrics) == [records |-> metrics.records]

metrics_from_dict(data) == [records |-> data.records]

\* Chat.__init__ on behalf of Client.chat, Chat.copy and Client.load_chat.
NewChat(link, mdl, system_prompt) ==
    LET h == IF system_prompt = NoPrompt THEN History(<<>>, 0)
             ELSE add_system(History(<<>>, 0), system_prompt).h
    IN [link |-> link, model |-> mdl,
        history |-> [nodes |-> Handle("own", h.nodes), next_id |-> h.next_id],
        metrics |-> [records |-> Handle("own", <<>>)]]

\* No second session has been made yet.
NoSession == NewChat("none", "", NoPrompt)

client_chat(mdl, system_prompt) == NewChat("new", mdl, system_prompt)

save(chat_obj) ==
    json_dump([model |-> chat_obj.model,
               history |-> to_dict(chat_obj.history),
               metrics |-> metrics_to_dict(chat_obj.metrics)])

load_chat(doc) ==
    LET data == json_load(doc) IN
    [NewChat("load", data.model, NoPrompt) EXCEPT
        !.history = from_dict(data.history),
        !.metrics = metrics_from_dict(data.metrics)]

copy(chat_obj) ==
    [NewChat("copy", chat_obj.model, NoPrompt) EXCEPT
        !.history = deepcopy(chat_obj.history),
        !.metrics = metrics_deepcopy(chat_obj.metrics)]

\* Two callers may be inside Chat.chat at once, each with its own locals.
Callers == {1, 2}
AskOf(c) == IF c = 1 THEN "q1" ELSE "q2"
ReplyOf(c) == IF c = 1 THEN "r1" ELSE "r2"

Idle ==
    [pc |-> "idle", user_node_id |-> -1, api_messages |-> <<>>,
     active_ids |-> <<>>, usage |-> "none"]

(***************************************************************************)
(* State machine                                                           *)
(***************************************************************************)
Self == History(nodes, next_id)

\* Ids a caller passes: every id handed out so far and the next, unused one.
CallIds == 0..next_id

Init ==
    /\ nodes = <<>>
    /\ next_id = 0
    /\ records = <<>>
    /\ model = "gpt-5-mini"
    /\ last = Call("init")
    /\ failed = {}
    /\ other = NoSession
    /\ client = NewChatClient
    /\ calls = [c \in Callers |-> Idle]

AddSystem ==
    /\ Len(nodes) < MaxNodes
    /\ \E c \in SystemTexts :
        LET r == add_system(Self, Text(c)) IN
        /\ nodes' = r.h.nodes
        /\ next_id' = r.h.next_id
        /\ last' = [Call("add_system") EXCEPT !.ret = r.ret]
    /\ UNCHANGED <<calls, client, other, records, model, failed>>

AddUser ==
    /\ Len(nodes) < MaxNodes
    /\ \E c \in UserTexts :
        LET r == add_user(Self, Text(c)) IN
        /\ nodes' = r.h.nodes
        /\ next_id' = r.h.next_id
        /\ last' = [Call("add_user") EXCEPT !.ret = r.ret]
    /\ UNCHANGED <<calls, client, other, records, model, failed>>

AddAssistant ==
    /\ Len(nodes) < MaxNodes
    /\ \E id \in CallIds, c \in Replies :
        LET r == add_assistant(Self, id, Text(c)) IN
        /\ nodes' = r.h.nodes
        /\ next_id' = r.h.next_id
        /\ last' = [Call("add_assistant") EXCEPT
                        !.id = id, !.err = r.err]
    /\ UNCHANGED <<calls, client, other, records, model, failed>>

Toggle ==
    /\ \E id \in CallIds, d \in Desired :
        LET r == toggle(Self, id, d) IN
        /\ nodes' = r.h.nodes
        /\ next_id' = r.h.next_id
        /\ last' = [Call("toggle") EXCEPT !.id = id, !.desired = d, !.err = r.err]
    /\ UNCHANGED <<calls, client, other, records, model, failed>>

Clear ==
    /\ \E f \in BOOLEAN :
        LET h == clear(Self, f) IN
        /\ nodes' = h.nodes
        /\ next_id' = h.next_id
        /\ last' = [Call("clear") EXCEPT !.flag = f]
    /\ UNCHANGED <<calls, client, other, records, model, failed>>

SetSystemPrompt ==
    /\ \E p \in {NoPrompt, Text("S1")} :
        /\ p # NoPrompt => Len(nodes) < MaxNodes
        /\ LET h == set_system_prompt(Self, p) IN
            /\ nodes' = h.nodes
            /\ next_id' = h.next_id
            /\ last' = [Call("set_system_prompt") EXCEPT !.flag = (p = NoPrompt)]
    /\ UNCHANGED <<calls, client, other, records, model, failed>>

SetModel ==
    /\ \E m \in Models :
        /\ model' = m
        /\ last' = Call("set_model")
    /\ UNCHANGED <<calls, client, other, nodes, next_id, records, failed>>

Responses ==
    {[ok |-> FALSE, reply |-> "", usage |-> "none"]}
    \cup [ok : {TRUE}, reply : Replies, usage : Usages]

Chat ==
    /\ \E ps \in PartSeqs, resp \in Responses :
        LET r == chat(Self, records, model, ps, resp) IN
        /\ Len(r.h.nodes) <= MaxNodes
        /\ nodes' = r.h.nodes
        /\ next_id' = r.h.next_id
        /\ records' = r.records
        /\ last' = [Call("chat") EXCEPT
                        !.parts = ps, !.ok = resp.ok, !.usage = resp.usage,
                        !.ret = r.ret, !.err = r.err, !.sent = r.sent,
                        !.messages = r.messages]
        /\ failed' = IF r.sent /\ ~resp.ok THEN failed \cup {r.ret} ELSE failed
    /\ UNCHANGED <<calls, client, other, model>>

ChatClear ==
    /\ \E f \in BOOLEAN :
        LET r == chat_clear(Self, records, f) IN
        /\ nodes' = r.h.nodes
        /\ next_id' = r.h.next_id
        /\ records' = r.records
        /\ last' = [Call("chat_clear") EXCEPT !.flag = f]
    /\ UNCHANGED <<calls, client, other, model, failed>>

BuildMessages ==
    /\ last' = [Call("build_messages") EXCEPT !.messages = build_messages(Self)]
    /\ UNCHANGED <<calls, client, other, nodes, next_id, records, model, failed>>

Next ==
    \/ AddSystem \/ AddUser \/ AddAssistant \/ Toggle \/ Clear
    \/ SetSystemPrompt \/ BuildMessages

Spec == Init /\ [][Next]_vars

NextChat == Chat \/ ChatClear \/ SetSystemPrompt \/ SetModel \/ Toggle \/ Clear

SpecChat == Init /\ [][NextChat]_vars

(***************************************************************************)
(* Two sessions: the first one and a second made from it or next to it.    *)
(* The calls below act on either session; last keeps the method and the    *)
(* session only.                                                           *)
(***************************************************************************)
SelfChat ==
    [link |-> "self", model |-> model,
     history |-> [nodes |-> Handle("nodes", <<>>), next_id |-> next_id],
     metrics |-> [records |-> Handle("records", <<>>)]]

Targets == {"self", "other"}
ChatOf(t) == IF t = "self" THEN SelfChat ELSE other
HistoryOf(t) == History(Deref(ChatOf(t).history.nodes), ChatOf(t).history.next_id)
RecordsOf(t) == Deref(ChatOf(t).metrics.records)
Exists(t) == t = "self" \/ other.link # "none"

\* The state after a call on session t left it with history h and records
\* recs: each list is written where its handle points.
Write(t, h, recs) ==
    LET nl == ChatOf(t).history.nodes
        rl == ChatOf(t).metrics.records
    IN  /\ nodes' = IF nl.ref = "nodes" THEN h.nodes ELSE nodes
        /\ records' = IF rl.ref = "records" THEN recs ELSE records
        /\ next_id' = IF t = "self" THEN h.next_id ELSE next_id
        /\ other' =
            IF t = "self" THEN other
            ELSE [other EXCEPT
                    !.history.next_id = h.next_id,
                    !.history.nodes.items = IF nl.ref = "own" THEN h.nodes ELSE @,
                    !.metrics.records.items = IF rl.ref = "own" THEN recs ELSE @]

\* other = client.chat(model, system_prompt)
NewSession ==
    /\ \E p \in {NoPrompt, Text("S1")} :
        other' = client_chat("gpt-4o", p)
    /\ last' = Call("client_chat")
    /\ UNCHANGED <<calls, client, nodes, next_id, records, model, failed>>

\* other = self.copy()
Copy ==
    /\ other' = copy(SelfChat)
    /\ last' = Call("copy")
    /\ UNCHANGED <<calls, client, nodes, next_id, records, model, failed>>

\* other.history = ConversationHistory.from_dict(self.history.to_dict()) and
\* other.metrics = Metrics.from_dict(self.metrics.to_dict()), in memory.
Restore ==
    /\ other' = [NewChat("from_dict", model, NoPrompt) EXCEPT
                    !.history = from_dict(to_dict(SelfChat.history)),
                    !.metrics = metrics_from_dict(metrics_to_dict(SelfChat.metrics))]
    /\ last' = Call("from_dict")
    /\ UNCHANGED <<calls, client, nodes, next_id, records, model, failed>>

\* self.save(path); other = client.load_chat(path). Nothing else writes the
\* file, so it is written and read back in one step.
SaveLoad ==
    /\ other' = load_chat(save(SelfChat))
    /\ last' = Call("load_chat")
    /\ UNCHANGED <<calls, client, nodes, next_id, records, model, failed>>

\* The ids a caller holds from add_user.
UserIds(ns) == {ns[i].id : i \in {k \in 1..Len(ns) : ns[k].role = "user"}}

OnAddSystem ==
    \E t \in Targets :
        /\ Exists(t) /\ Len(HistoryOf(t).nodes) < MaxShared
        /\ LET r == add_system(HistoryOf(t), Text("S1")) IN
            /\ Write(t, r.h, RecordsOf(t))
            /\ last' = [Call("add_system") EXCEPT !.on = t]
        /\ UNCHANGED <<calls, client, model, failed>>

OnAddUser ==
    \E t \in Targets :
        /\ Exists(t) /\ Len(HistoryOf(t).nodes) < MaxShared
        /\ LET r == add_user(HistoryOf(t), Text("hi")) IN
            /\ Write(t, r.h, RecordsOf(t))
            /\ last' = [Call("add_user") EXCEPT !.on = t]
        /\ UNCHANGED <<calls, client, model, failed>>

OnAddAssistant ==
    \E t \in Targets :
        /\ Exists(t) /\ Len(HistoryOf(t).nodes) < MaxShared
        /\ \E id \in UserIds(HistoryOf(t).nodes) :
            LET r == add_assistant(HistoryOf(t), id, Text("hello")) IN
            /\ Write(t, r.h, RecordsOf(t))
            /\ last' = [Call("add_assistant") EXCEPT !.on = t]
        /\ UNCHANGED <<calls, client, model, failed>>

OnToggle ==
    \E t \in Targets :
        /\ Exists(t)
        /\ \E id \in 0..HistoryOf(t).next_id :
            LET r == toggle(HistoryOf(t), id, "None") IN
            /\ Write(t, r.h, RecordsOf(t))
            /\ last' = [Call("toggle") EXCEPT !.on = t]
        /\ UNCHANGED <<calls, client, model, failed>>

OnClear ==
    \E t \in Targets, f \in BOOLEAN :
        /\ Exists(t)
        /\ Write(t, clear(HistoryOf(t), f), RecordsOf(t))
        /\ last' = [Call("clear") EXCEPT !.on = t]
        /\ UNCHANGED <<calls, client, model, failed>>

OnChat ==
    \E t \in Targets, resp \in Responses :
        LET ps == <<StrPart("hi")>>
            r == chat(HistoryOf(t), RecordsOf(t), ChatOf(t).model, ps, resp)
        IN  /\ Exists(t) /\ Len(r.h.nodes) <= MaxShared
            /\ Write(t, r.h, r.records)
            /\ last' = [Call("chat") EXCEPT !.on = t]
            /\ failed' = IF t = "self" /\ r.sent /\ ~resp.ok
                         THEN failed \cup {r.ret} ELSE failed
            /\ UNCHANGED <<calls, client, model>>

OnChatClear ==
    \E t \in Targets, f \in BOOLEAN :
        LET r == chat_clear(HistoryOf(t), RecordsOf(t), f) IN
        /\ Exists(t)
        /\ Write(t, r.h, r.records)
        /\ last' = [Call("chat_clear") EXCEPT !.on = t]
        /\ UNCHANGED <<calls, client, model, failed>>

NextSessions ==
    \/ NewSession \/ Copy
    \/ OnAddSystem \/ OnAddUser \/ OnAddAssistant \/ OnToggle \/ OnClear
    \/ OnChat \/ OnChatClear

SpecSessions == Init /\ [][NextSessions]_vars

NextRestore ==
    \/ Restore \/ SaveLoad
    \/ OnAddSystem \/ OnAddUser \/ OnAddAssistant \/ OnToggle \/ OnClear
    \/ OnChat \/ OnChatClear

SpecRestore == Init /\ [][NextRestore]_vars

(***************************************************************************)
(* The ChatClient calls.                                                   *)
(***************************************************************************)
ClientChat ==
    /\ \E ps \in PartSeqs, resp \in Responses :
        LET r == ChatClient_chat(client, ps, resp) IN
        /\ Len(r.c.history) <= MaxEntries
        /\ Len(r.c.usage_details) <= MaxEntries
        /\ client' = r.c
        /\ last' = [Call("client_chat") EXCEPT
                        !.parts = ps, !.ok = resp.ok, !.usage = resp.usage,
                        !.err = r.err, !.sent = r.sent, !.messages = r.messages]
    /\ UNCHANGED <<calls, nodes, next_id, records, model, failed, other>>

ClientSetSystemPrompt ==
    /\ \E p \in {NoPrompt, Text("S1"), Text("S2")} :
        /\ Len(ChatClient_set_system_prompt(client, p).history) <= MaxEntries
        /\ client' = ChatClient_set_system_prompt(client, p)
        /\ last' = [Call("client_set_system_prompt") EXCEPT !.flag = (p = NoPrompt)]
    /\ UNCHANGED <<calls, nodes, next_id, records, model, failed, other>>

ClientClearHistory ==
    /\ client' = ChatClient_clear_history(client)
    /\ last' = Call("clear_history")
    /\ UNCHANGED <<calls, nodes, next_id, records, model, failed, other>>

NextClient == ClientChat \/ ClientSetSystemPrompt \/ ClientClearHistory

SpecClient == Init /\ [][NextClient]_vars

(***************************************************************************)
(* Chat.chat calls that overlap on one session. Every History and Metrics  *)
(* method runs as one step; the steps of the two callers interleave.       *)
(***************************************************************************)
\* Calls that have registered a user node and may still record a reply.
Awaiting == {c \in Callers : calls[c].pc \in {"registered", "built", "sent"}}

\* Lines 95-113: the content is built and the user node registered.
ChatRegister ==
    \E c \in Callers :
        /\ calls[c].pc = "idle"
        /\ Len(nodes) + 2 + Cardinality(Awaiting) <= MaxNodes
        /\ LET user == add_user(Self, chat_content(<<StrPart(AskOf(c))>>).content) IN
            /\ nodes' = user.h.nodes
            /\ next_id' = user.h.next_id
            /\ calls' = [calls EXCEPT ![c] =
                            [Idle EXCEPT !.pc = "registered",
                                         !.user_node_id = user.ret]]
        /\ last' = [Call("chat_register") EXCEPT !.id = c]
        /\ UNCHANGED <<records, model, failed, other, client>>

\* Lines 117-120: build_messages() and the new user entry.
ChatBuild ==
    \E c \in Callers :
        /\ calls[c].pc = "registered"
        /\ calls' = [calls EXCEPT
                        ![c].pc = "built",
                        ![c].api_messages =
                            Append(build_messages(Self),
                                   Message("user", Text(AskOf(c))))]
        /\ last' = [Call("chat_build") EXCEPT !.id = c]
        /\ UNCHANGED <<nodes, next_id, records, model, failed, other, client>>

\* Lines 123-129: the active ids are taken and the request goes out.
ChatSend ==
    \E c \in Callers :
        /\ calls[c].pc = "built"
        /\ calls' = [calls EXCEPT
                        ![c].pc = "sent",
                        ![c].active_ids =
                            Append(get_active_node_ids(Self),
                                   calls[c].user_node_id)]
        /\ last' = [Call("chat_send") EXCEPT !.id = c]
        /\ UNCHANGED <<nodes, next_id, records, model, failed, other, client>>

\* Lines 132-133: the response arrives and the reply is recorded.
ChatReceive ==
    \E c \in Callers, u \in Usages :
        /\ calls[c].pc = "sent"
        /\ LET r == add_assistant(Self, calls[c].user_node_id, Text(ReplyOf(c))) IN
            /\ nodes' = r.h.nodes
            /\ next_id' = r.h.next_id
        /\ calls' = [calls EXCEPT ![c].pc = "replied", ![c].usage = u]
        /\ last' = [Call("chat_receive") EXCEPT !.id = c]
        /\ UNCHANGED <<records, model, failed, other, client>>

\* Lines 136-144: the usage is logged if there is one, and the call returns.
ChatLog ==
    \E c \in Callers :
        /\ calls[c].pc = "replied"
        /\ records' = IF calls[c].usage # "none"
                      THEN log(records, calls[c].usage, model, calls[c].active_ids)
                      ELSE records
        /\ calls' = [calls EXCEPT ![c].pc = "done"]
        /\ last' = [Call("chat_return") EXCEPT !.id = c]
        /\ UNCHANGED <<nodes, next_id, model, failed, other, client>>

\* Lines 146-148: the request raised, the call ends in RuntimeError.
ChatFail ==
    \E c \in Callers :
        /\ calls[c].pc = "sent"
        /\ calls' = [calls EXCEPT ![c].pc = "failed"]
        /\ failed' = failed \cup {calls[c].user_node_id}
        /\ last' = [Call("chat_raise") EXCEPT !.id = c, !.err = "RuntimeError"]
        /\ UNCHANGED <<nodes, next_id, records, model, other, client>>

\* Both callers are back; they may call again.
ChatAgain ==
    /\ \A c \in Callers : calls[c].pc \in {"done", "failed"}
    /\ calls' = [c \in Callers |-> Idle]
    /\ last' = Call("chat_again")
    /\ UNCHANGED <<nodes, next_id, records, model, failed, other, client>>

NextOverlap ==
    \/ ChatRegister \/ ChatBuild \/ ChatSend \/ ChatReceive \/ ChatLog
    \/ ChatFail \/ ChatAgain

SpecOverlap == Init /\ [][NextOverlap]_vars

(***************************************************************************)
(* Properties                                                              *)
(***************************************************************************)
Indices(ns) == 1..Len(ns)
ActiveSystems(ns) == {i \in Indices(ns) : ns[i].role = "system" /\ ns[i].active}
HasRole(ns, id, role) == \E i \in Indices(ns) : ns[i].id = id /\ ns[i].role = role
Dialogue(role) == role \in {"user", "assistant"}

\* C1: in every state reachable through add_system, add_user, add_assistant,
\* toggle, clear and set_system_prompt, at most one system node is active.
C1_AtMostOneActiveSystem == Cardinality(ActiveSystems(nodes)) <= 1

\* An older system node was switched back on and the newer one went off.
C1_Witness ==
    /\ last.op = "toggle" /\ last.err = ""
    /\ \E i, j \in Indices(nodes) :
        /\ i < j
        /\ nodes[i].role = "system" /\ nodes[i].active /\ nodes[i].id = last.id
        /\ nodes[j].role = "system" /\ ~nodes[j].active

\* C2: user and assistant nodes that share an id carry the same active flag,
\* and a user node whose id has no assistant node is inactive.
C2_PairFlagsAgree ==
    /\ \A i, j \in Indices(nodes) :
        (/\ Dialogue(nodes[i].role) /\ Dialogue(nodes[j].role)
         /\ nodes[i].id = nodes[j].id) => nodes[i].active = nodes[j].active
    /\ \A i \in Indices(nodes) :
        (nodes[i].role = "user" /\ ~HasRole(nodes, nodes[i].id, "assistant"))
            => ~nodes[i].active

\* C3: add_assistant with an id that no user node carries fails and changes
\* neither the node list nor next_id.
C3_OrphanAssistantRejected ==
    [][(last'.op = "add_assistant" /\ ~HasRole(nodes, last'.id, "user"))
        => (last'.err # "" /\ nodes' = nodes /\ next_id' = next_id)]_vars

\* C4 as stated: from the empty history, add_system("S1") then add_user("hi")
\* returns id 0 and leaves the user node inactive, and add_assistant(0, "hello")
\* then makes build_messages() return [system S1, user hi, assistant hello].
C4_ScenarioAsStated ==
    /\ (/\ last.op = "add_user" /\ Len(nodes) = 2
        /\ nodes[1] = Node(0, "system", Text("S1"), TRUE)
        /\ nodes[2].content = Text("hi"))
            => (last.ret = 0 /\ nodes[2].id = 0 /\ ~nodes[2].active)
    /\ (/\ last.op = "add_assistant" /\ last.id = 0 /\ Len(nodes) = 3
        /\ nodes[1] = Node(0, "system", Text("S1"), TRUE)
        /\ nodes[2].role = "user" /\ nodes[2].content = Text("hi")
        /\ nodes[3].content = Text("hello"))
            => build_messages(Self) =
                <<Message("system", Text("S1")), Message("user", Text("hi")),
                  Message("assistant", Text("hello"))>>

\* C4 amended: the system node takes id 0, so add_user("hi") returns id 1 and
\* leaves the user node inactive, and add_assistant(1, "hello") then makes
\* build_messages() return [system S1, user hi, assistant hello].
C4_ScenarioAmended ==
    /\ (/\ last.op = "add_user" /\ Len(nodes) = 2
        /\ nodes[1] = Node(0, "system", Text("S1"), TRUE)
        /\ nodes[2].content = Text("hi"))
            => (last.ret = 1 /\ nodes[2].id = 1 /\ ~nodes[2].active)
    /\ (/\ last.op = "add_assistant" /\ last.id = 1 /\ Len(nodes) = 3
        /\ nodes[1] = Node(0, "system", Text("S1"), TRUE)
        /\ nodes[2].role = "user" /\ nodes[2].content = Text("hi")
        /\ nodes[3].content = Text("hello"))
            => build_messages(Self) =
                <<Message("system", Text("S1")), Message("user", Text("hi")),
                  Message("assistant", Text("hello"))>>

\* The three calls of the scenario were made, in order, on the empty history.
C4_Witness ==
    /\ last.op = "add_assistant" /\ last.id = 1
    /\ nodes = <<Node(0, "system", Text("S1"), TRUE),
                 Node(1, "user", Text("hi"), TRUE),
                 Node(1, "assistant", Text("hello"), TRUE)>>

\* C5: a Chat.chat call with valid parts whose boundary call fails raises,
\* appends exactly one node (a user node, fresh id, inactive), keeps every
\* earlier node's active flag and get_active_node_ids(), and logs no usage.
C5_FailedChatEffect ==
    [][(last'.op = "chat" /\ last'.sent /\ ~last'.ok) =>
        /\ last'.err = "RuntimeError"
        /\ Len(nodes') = Len(nodes) + 1
        /\ LET n == nodes'[Len(nodes')] IN
            /\ n.role = "user" /\ ~n.active /\ n.id = last'.ret
            /\ \A i \in Indices(nodes) : nodes[i].id # n.id
        /\ \A i \in Indices(nodes) : nodes'[i].active = nodes[i].active
        /\ get_active_node_ids(Self') = get_active_node_ids(Self)
        /\ records' = records]_vars

\* A call failed on a session that already held an active pair and a record.
C5_Witness ==
    /\ last.op = "chat" /\ last.sent /\ ~last.ok /\ last.err = "RuntimeError"
    /\ Len(records) > 0
    /\ \E i \in Indices(nodes) : nodes[i].role = "assistant" /\ nodes[i].active

\* The store with the nodes of failed calls taken out.
RECURSIVE WithoutIds(_, _)
WithoutIds(ns, ids) ==
    IF ns = <<>> THEN <<>>
    ELSE (IF Head(ns).id \in ids THEN <<>> ELSE <<Head(ns)>>)
         \o WithoutIds(Tail(ns), ids)

\* C6: through chat, clear, set_system_prompt, set_model, history.toggle and
\* history.clear, the user node of a failed call stays in the store, alone
\* under its id and inactive, and no later request is built from it.
C6_FailedNodeStaysInactive ==
    [][/\ \A id \in failed' :
            /\ Cardinality({i \in Indices(nodes') : nodes'[i].id = id}) = 1
            /\ \A i \in Indices(nodes') :
                nodes'[i].id = id => (nodes'[i].role = "user" /\ ~nodes'[i].active)
       /\ \A id \in failed : \A i \in Indices(nodes) :
            nodes[i].id = id => nodes'[i] = nodes[i]
       /\ (last'.op = "chat" /\ last'.sent) =>
            last'.messages =
                Append(build_messages(History(WithoutIds(nodes, failed), next_id)),
                       Message("user", nodes'[Len(nodes) + 1].content))]_vars

\* After a failed call a later call went through on the same session, and its
\* request held the system prompt and the new message only.
C6_Witness ==
    /\ last.op = "chat" /\ last.sent /\ last.ok
    /\ \E id \in failed : id < last.ret
    /\ Len(last.messages) = 2 /\ last.messages[1].role = "system"

\* What build_messages() is to return, stated over the store as a whole.
ActiveDialogue(ns) == {i \in Indices(ns) : Dialogue(ns[i].role) /\ ns[i].active}
Nth(S, k) == CHOOSE i \in S : Cardinality({j \in S : j <= i}) = k
ExpectedMessages(ns) ==
    LET sys == ActiveSystems(ns)
        dia == ActiveDialogue(ns)
    IN (IF sys = {} THEN <<>>
        ELSE <<Message("system", ns[Max(sys)].content)>>)
       \o [k \in 1..Cardinality(dia) |->
            Message(ns[Nth(dia, k)].role, ns[Nth(dia, k)].content)]

\* C7: build_messages() returns the content of the last active system node, if
\* any, then one message per active user or assistant node in store order;
\* inactive nodes contribute nothing and the store is left as it was.
C7_BuildMessages ==
    [][last'.op = "build_messages" =>
        /\ last'.messages = ExpectedMessages(nodes)
        /\ nodes' = nodes /\ next_id' = next_id]_vars

\* Messages were built from a store with an active system node, an active pair
\* and an inactive node.
C7_Witness ==
    /\ last.op = "build_messages"
    /\ Len(last.messages) = 3
    /\ last.messages[1].role = "system"
    /\ \E i \in Indices(nodes) : ~nodes[i].active

Incomplete(ns, id) == HasRole(ns, id, "user") # HasRole(ns, id, "assistant")

\* C8: toggle on an id with a user node and no assistant node, or an assistant
\* node and no user node, fails for every desired value and changes no flag.
C8_IncompleteToggleFails ==
    [][(last'.op = "toggle" /\ Incomplete(nodes, last'.id)) =>
        /\ last'.err # ""
        /\ Len(nodes') = Len(nodes)
        /\ \A i \in Indices(nodes) : nodes'[i].active = nodes[i].active]_vars

\* C9: toggle on an id with a user and an assistant node gives every node of
\* that id the desired flag (the negation of the user node's flag for None),
\* changes nothing else, and toggle(0, False) on two active pairs leaves only
\* the other pair in build_messages().
C9_PairToggle ==
    [][(/\ last'.op = "toggle"
        /\ HasRole(nodes, last'.id, "user")
        /\ HasRole(nodes, last'.id, "assistant")) =>
        LET id == last'.id
            u == CHOOSE i \in Indices(nodes) :
                    nodes[i].id = id /\ nodes[i].role = "user"
            want == IF last'.desired = "None" THEN ~nodes[u].active
                    ELSE last'.desired = "True"
        IN /\ last'.err = ""
           /\ next_id' = next_id
           /\ Len(nodes') = Len(nodes)
           /\ \A i \in Indices(nodes) :
                nodes'[i] = IF nodes[i].id = id
                            THEN [nodes[i] EXCEPT !.active = want]
                            ELSE nodes[i]
           /\ (/\ id = 0 /\ last'.desired = "False"
               /\ nodes = <<Node(0, "user", Text("hi"), TRUE),
                            Node(0, "assistant", Text("hello"), TRUE),
                            Node(1, "user", Text("hi"), TRUE),
                            Node(1, "assistant", Text("hello"), TRUE)>>)
                => build_messages(Self') =
                    <<Message("user", nodes[3].content),
                      Message("assistant", nodes[4].content)>>]_vars

\* toggle(0, False) was applied to two pairs and switched off the first.
C9_Witness ==
    /\ last.op = "toggle" /\ last.id = 0 /\ last.desired = "False"
    /\ nodes = <<Node(0, "user", Text("hi"), FALSE),
                 Node(0, "assistant", Text("hello"), FALSE),
                 Node(1, "user", Text("hi"), TRUE),
                 Node(1, "assistant", Text("hello"), TRUE)>>

\* C10: toggle on the id of a system node gives that node the desired flag
\* (its negation for None); if it ends active every other system node ends
\* inactive, if it ends inactive the other system nodes keep their flags; no
\* user or assistant node changes.
C10_SystemToggle ==
    [][(last'.op = "toggle" /\ HasRole(nodes, last'.id, "system")) =>
        LET s == CHOOSE i \in Indices(nodes) :
                    nodes[i].id = last'.id /\ nodes[i].role = "system"
            want == IF last'.desired = "None" THEN ~nodes[s].active
                    ELSE last'.desired = "True"
        IN /\ Len(nodes') = Len(nodes)
           /\ nodes'[s].active = want
           /\ \A i \in Indices(nodes) \ {s} :
                /\ nodes[i].role = "system" =>
                    nodes'[i].active = (IF want THEN FALSE ELSE nodes[i].active)
                /\ Dialogue(nodes[i].role) => nodes'[i] = nodes[i]]_vars

\* C11: after every add_system call the node just appended is the only
\* active system node, the call returned its id, build_messages() opens with
\* its content, and no user or assistant node changed.
C11_AddSystem ==
    [][last'.op = "add_system" =>
        /\ Len(nodes') = Len(nodes) + 1
        /\ LET n == nodes'[Len(nodes')] IN
            /\ n.role = "system" /\ n.active /\ n.id = last'.ret
            /\ build_messages(Self')[1] = Message("system", n.content)
        /\ ActiveSystems(nodes') = {Len(nodes')}
        /\ \A i \in Indices(nodes) :
            Dialogue(nodes[i].role) => nodes'[i] = nodes[i]]_vars

\* add_system("S2") came after add_system("S1") and an active pair.
C11_Witness ==
    /\ last.op = "add_system"
    /\ nodes[Len(nodes)] = Node(last.ret, "system", Text("S2"), TRUE)
    /\ \E i \in Indices(nodes) :
        nodes[i].role = "system" /\ nodes[i].content = Text("S1") /\ ~nodes[i].active
    /\ \E i \in Indices(nodes) : nodes[i].role = "assistant" /\ nodes[i].active

Occurrences(seq, x) == Cardinality({k \in 1..Len(seq) : seq[k] = x})

\* C12: add_user appends an inactive user node under an id no node of the
\* store carries; add_assistant with that id, called next, appends an active
\* assistant node under the same id and activates the user node, and
\* get_active_node_ids() then holds the id exactly once.
C12_UserThenAssistant ==
    [][/\ last'.op = "add_user" =>
            /\ Len(nodes') = Len(nodes) + 1
            /\ LET n == nodes'[Len(nodes')] IN
                /\ n.role = "user" /\ ~n.active /\ n.id = last'.ret
                /\ \A i \in Indices(nodes) : nodes[i].id # n.id
       /\ (/\ last.op = "add_user" /\ last'.op = "add_assistant"
           /\ last'.id = last.ret) =>
            /\ Len(nodes') = Len(nodes) + 1
            /\ LET a == nodes'[Len(nodes')] IN
                a.role = "assistant" /\ a.active /\ a.id = last.ret
            /\ nodes'[Len(nodes)] = [nodes[Len(nodes)] EXCEPT !.active = TRUE]
            /\ Occurrences(get_active_node_ids(Self'), last.ret) = 1]_vars

\* C14: every assistant node carries the id of a user node that precedes it,
\* and the id of a system node is carried by no other node.
C14_IdsPaired ==
    /\ \A i \in Indices(nodes) :
        nodes[i].role = "assistant" =>
            \E j \in 1..(i - 1) :
                nodes[j].role = "user" /\ nodes[j].id = nodes[i].id
    /\ \A i, j \in Indices(nodes) :
        (nodes[i].role = "system" /\ j # i) => nodes[j].id # nodes[i].id

\* C15: clear(False) switches every user and assistant node off and leaves the
\* system nodes' flags alone; clear(True) switches every node off; the nodes,
\* their order, ids, roles, contents and next_id stay as they were.
C15_Clear ==
    [][last'.op = "clear" =>
        /\ next_id' = next_id
        /\ Len(nodes') = Len(nodes)
        /\ \A i \in Indices(nodes) :
            nodes'[i] =
                [nodes[i] EXCEPT !.active =
                    IF nodes[i].role = "system" /\ ~last'.flag
                    THEN nodes[i].active ELSE FALSE]]_vars

\* clear(False) switched a pair off and left the system prompt on.
C15_Witness ==
    /\ last.op = "clear" /\ ~last.flag
    /\ ActiveSystems(nodes) # {}
    /\ ActiveDialogue(nodes) = {}
    /\ \E i \in Indices(nodes) : nodes[i].role = "assistant"

\* C16: through the History and Chat operations the node list only grows at
\* its end: a stored node keeps its position, id, role and content, and only
\* its active flag may change.
C16_AppendOnly ==
    [][/\ Len(nodes') >= Len(nodes)
       /\ \A i \in Indices(nodes) :
            [nodes'[i] EXCEPT !.active = nodes[i].active] = nodes[i]]_vars

\* A chat call appended a pair behind nodes that had been switched off.
C16_Witness ==
    /\ last.op = "chat" /\ last.err = "" /\ Len(nodes) = MaxNodes
    /\ ~nodes[1].active /\ ~nodes[2].active

\* C19 as stated: the usage records are append-only over the Chat operations:
\* no call shortens the list or alters a record already logged, and a
\* successful request that reported usage adds exactly one record.
C19_RecordsAppendOnly ==
    [][/\ Len(records') >= Len(records)
       /\ SubSeq(records', 1, Len(records)) = records
       /\ Len(records') =
            IF last'.op = "chat" /\ last'.err = "" /\ last'.usage # "none"
            THEN Len(records) + 1 ELSE Len(records)]_vars

\* C19 amended: a successful request that reported usage appends exactly one
\* record (the model, the active ids ending in the new pair's id, the usage)
\* at the end of the list, Chat.clear empties the list, and every other call
\* leaves the list as it was.
C19_RecordsAmended ==
    [][IF last'.op = "chat_clear" THEN records' = <<>>
       ELSE IF last'.op = "chat" /\ last'.err = "" /\ last'.usage # "none"
       THEN /\ Len(records') = Len(records) + 1
            /\ SubSeq(records', 1, Len(records)) = records
            /\ LET rec == records'[Len(records')] IN
                /\ rec.model = model /\ rec.usage = last'.usage
                /\ rec.active_nodes # <<>>
                /\ rec.active_nodes[Len(rec.active_nodes)] = last'.ret
       ELSE records' = records]_vars

\* The second request that reported usage left the second record, after the
\* first one.
C19_Witness ==
    /\ last.op = "chat" /\ last.err = "" /\ last.usage # "none"
    /\ Len(records) = 2
    /\ records[1].active_nodes = <<0>>
    /\ records[2].active_nodes = <<0, 1>>

BadParts(parts) ==
    \/ parts = <<>>
    \/ \E i \in 1..Len(parts) : parts[i].type \notin {"str", "ContentPart"}

\* C20: Chat.chat called with no part, or with a part that is neither a string
\* nor a ContentPart, fails with ValueError, submits nothing, and leaves the
\* node list, next_id and the usage records as they were.
C20_InvalidPartsRejected ==
    [][(last'.op = "chat" /\ BadParts(last'.parts)) =>
        /\ last'.err = "ValueError"
        /\ ~last'.sent /\ last'.messages = <<>>
        /\ nodes' = nodes /\ next_id' = next_id /\ records' = records]_vars

\* A text followed by a number was refused on a session that holds a pair.
C20_Witness ==
    /\ last.op = "chat" /\ last.parts = <<StrPart("hi"), BadPart>>
    /\ last.err = "ValueError"
    /\ Len(nodes) >= 2 /\ records # <<>>

OtherNodes == Deref(other.history.nodes)
OtherRecords == Deref(other.metrics.records)
SystemOrUser(role) == role \in {"system", "user"}

\* The ids of the system and user nodes of h are pairwise distinct and all
\* below the counter of h.
IdsBelowCounter(h) ==
    \A i \in Indices(h.nodes) :
        SystemOrUser(h.nodes[i].role) =>
            /\ h.nodes[i].id < h.next_id
            /\ \A j \in Indices(h.nodes) :
                (j # i /\ SystemOrUser(h.nodes[j].role)) =>
                    h.nodes[j].id # h.nodes[i].id

\* C13: in every history, the original and the one restored from it by
\* from_dict(to_dict()) or by save and load_chat, no two system or user nodes
\* carry the same id and next_id is above the id of every system and user
\* node, so add_system and add_user never hand out an id of the store again.
C13_IdsNeverReused ==
    \A t \in Targets : Exists(t) => IdsBelowCounter(HistoryOf(t))

CallOps ==
    {"add_system", "add_user", "add_assistant", "toggle", "clear", "chat",
     "chat_clear"}

\* C17: with a second session made by Client.chat() or by copy(), a call on
\* one session leaves the node list, next_id, the usage records and the model
\* of the other as they were, in both directions.
C17_SessionsShareNothing ==
    [][(last'.op \in CallOps /\ other.link \in {"new", "copy"}) =>
        /\ last'.on = "other" =>
            /\ nodes' = nodes /\ next_id' = next_id
            /\ records' = records /\ model' = model
        /\ last'.on = "self" =>
            /\ OtherNodes' = OtherNodes
            /\ other'.history.next_id = other.history.next_id
            /\ OtherRecords' = OtherRecords
            /\ other'.model = other.model]_vars

\* The copy recorded a reply to the user message it had inherited; in the
\* original the message is still unanswered and inactive.
C17_Witness ==
    /\ other.link = "copy" /\ last.on = "other" /\ last.op = "add_assistant"
    /\ Len(nodes) = 1 /\ nodes[1].role = "user" /\ ~nodes[1].active
    /\ Len(OtherNodes) = 2 /\ OtherNodes[1].active

\* The session c holds what the first session holds.
SameSession(c) ==
    LET h == History(Deref(c.history.nodes), c.history.next_id) IN
    /\ c.model = model
    /\ h.nodes = nodes /\ h.next_id = next_id
    /\ Deref(c.metrics.records) = records
    /\ build_messages(h) = build_messages(Self)
    /\ get_active_node_ids(h) = get_active_node_ids(Self)

\* C18: a session restored by load_chat from what save wrote, or by from_dict
\* from what to_dict returned, serialises to the same structure again and
\* holds the same model, nodes (order, ids, roles, contents, flags), next_id
\* and usage records, hence the same build_messages() and
\* get_active_node_ids().
C18_RoundTrip ==
    [][/\ last'.op = "load_chat" =>
            /\ save(other') = save(SelfChat)
            /\ SameSession(other')
       /\ last'.op = "from_dict" =>
            /\ to_dict(other'.history) = to_dict(SelfChat.history)
            /\ metrics_to_dict(other'.metrics) = metrics_to_dict(SelfChat.metrics)
            /\ SameSession(other')]_vars

\* A session with a switched-off pair and a usage record came back from the
\* file.
C18_Witness ==
    /\ last.op = "load_chat" /\ other.link = "load"
    /\ other.history.nodes.ref = "own"
    /\ Len(OtherNodes) = 2 /\ ~OtherNodes[1].active /\ ~OtherNodes[2].active
    /\ other.history.next_id = 1
    /\ OtherRecords # <<>>

\* C21: set_system_prompt(None) leaves no system node active, appends no
\* node, leaves every user and assistant node and next_id as they were, and
\* changes nothing when no system node was active; set_system_prompt(text)
\* has exactly the effect of add_system(text).
C21_SetSystemPrompt ==
    [][last'.op = "set_system_prompt" =>
        IF last'.flag
        THEN /\ ActiveSystems(nodes') = {}
             /\ Len(nodes') = Len(nodes) /\ next_id' = next_id
             /\ \A i \in Indices(nodes) :
                    nodes'[i] =
                        IF nodes[i].role = "system"
                        THEN [nodes[i] EXCEPT !.active = FALSE] ELSE nodes[i]
             /\ ActiveSystems(nodes) = {} => nodes' = nodes
        ELSE Self' = add_system(Self, Text("S1")).h]_vars

\* set_system_prompt(None) switched the prompt off next to an active pair.
C21_Witness ==
    /\ last.op = "set_system_prompt" /\ last.flag
    /\ \E i \in Indices(nodes) : nodes[i].role = "system"
    /\ ActiveDialogue(nodes) # {}

\* C22: when the completion call inside ChatClient.chat fails, the history
\* list after the call equals the list before it entry for entry,
\* usage_details is unchanged, and the call raises an error.
C22_FailedRequestPopped ==
    [][(last'.op = "client_chat" /\ last'.sent /\ ~last'.ok) =>
        /\ client'.history = client.history
        /\ client'.usage_details = client.usage_details
        /\ last'.err = "RuntimeError"
        /\ last'.messages = Append(client.history, last'.messages[Len(last'.messages)])
        /\ last'.messages[Len(last'.messages)].role = "user"]_vars

\* A request failed on a client that holds a system prompt, a pair and a
\* usage report.
C22_Witness ==
    /\ last.op = "client_chat" /\ last.sent /\ ~last.ok
    /\ Len(client.history) = 3 /\ client.history[1].role = "system"
    /\ client.history[3].role = "assistant"
    /\ client.usage_details # <<>>

\* C23: the messages Chat.chat passes to the completion boundary are
\* build_messages() of the history as it was before the call followed by one
\* user entry with the new content; the node just registered contributes that
\* last entry and no other.
C23_RequestMessages ==
    [][(last'.op = "chat" /\ last'.sent) =>
        LET before == build_messages(Self)
            content == chat_content(last'.parts).content
        IN  /\ last'.messages = Append(before, Message("user", content))
            /\ Len(last'.messages) = Len(before) + 1
            /\ last'.messages[Len(last'.messages)] = Message("user", content)]_vars

\* The text of an earlier, active pair was sent again: the request holds the
\* pair and then the new entry.
C23_Witness ==
    /\ last.op = "chat" /\ last.sent /\ last.err = ""
    /\ Len(last.messages) = 3
    /\ last.messages[1] = last.messages[3]
    /\ last.messages[2].role = "assistant"

\* Ids of the nodes whose content build_messages() takes, in the store ns.
RequestNodeIds(ns) ==
    {ns[i].id : i \in ActiveDialogue(ns)}
    \cup (IF last_system(ns, 1, 0) # 0 THEN {ns[last_system(ns, 1, 0)].id} ELSE {})

\* C24: through the Chat operations and history.toggle/clear, a successful
\* Chat.chat call whose response reports usage appends exactly one record: its
\* model is the session's model, its active-node list is
\* get_active_node_ids() followed by the new user id, holds each id once and
\* holds exactly the ids of the nodes whose content was in the request. A
\* response without usage appends no record.
C24_UsageRecord ==
    [][(last'.op = "chat" /\ last'.err = "") =>
        IF last'.usage = "none" THEN records' = records
        ELSE LET ids == Append(get_active_node_ids(Self), last'.ret) IN
             /\ records' = Append(records, [model |-> model, active_nodes |-> ids,
                                            usage |-> last'.usage])
             /\ \A i, j \in 1..Len(ids) : ids[i] = ids[j] => i = j
             /\ {ids[i] : i \in 1..Len(ids)} =
                    RequestNodeIds(nodes) \cup {last'.ret}]_vars

\* The record of a request sent under a system prompt, on the model chosen
\* with set_model.
C24_Witness ==
    /\ last.op = "chat" /\ last.err = "" /\ last.usage # "none"
    /\ nodes[1].role = "system" /\ nodes[1].active
    /\ records[Len(records)] =
        [model |-> "gpt-4o", active_nodes |-> <<0, 1>>, usage |-> last.usage]

\* At most one system message, in front, then user and assistant messages in
\* turn, from a user message to a user message.
WellFormedRequest(msgs) ==
    LET first == IF msgs # <<>> /\ msgs[1].role = "system" THEN 2 ELSE 1 IN
    /\ \A i \in first..Len(msgs) :
        msgs[i].role = IF (i - first) % 2 = 0 THEN "user" ELSE "assistant"
    /\ Len(msgs) >= first
    /\ msgs[Len(msgs)].role = "user"

\* C25: every request Chat.chat sends, in a state reached through chat,
\* Chat.clear, set_system_prompt, set_model and history.toggle/clear, has at
\* most one system message, in front, followed by user and assistant messages
\* that alternate, start with user and end with the message just submitted.
C25_RequestWellFormed ==
    (last.op = "chat" /\ last.sent) =>
        /\ WellFormedRequest(last.messages)
        /\ last.messages[Len(last.messages)] =
                Message("user", chat_content(last.parts).content)

\* A request of four messages: the prompt, a pair, the new message.
C25_Witness ==
    /\ last.op = "chat" /\ last.sent
    /\ Len(last.messages) = 4 /\ last.messages[1].role = "system"
    /\ \E i \in Indices(nodes) : Dialogue(nodes[i].role) /\ ~nodes[i].active

\* C26: a history and a metrics object built by from_dict from what another
\* instance's to_dict returned share no list with that instance: a call on
\* either object leaves the nodes and records of the other, and the structure
\* that was returned, as they were.
C26_RestoredSharesNothing ==
    [][(last'.op \in CallOps /\ other.link = "from_dict") =>
        /\ last'.on = "other" => (nodes' = nodes /\ records' = records)
        /\ last'.on = "self" =>
            (OtherNodes' = OtherNodes /\ OtherRecords' = OtherRecords)]_vars

Registered(c) == calls[c].pc # "idle"
Answered(c) == calls[c].pc \in {"replied", "done"}
NodesOf(id, role) == {i \in Indices(nodes) : nodes[i].id = id /\ nodes[i].role = role}

\* C27: when two Chat.chat calls on one session overlap, the two user nodes
\* get distinct ids, each reply is stored under the id of the user node its
\* own call registered, and once both calls have completed successfully both
\* pairs are active, user and assistant flags equal.
C27_OverlappingCalls ==
    /\ \A c, d \in Callers :
        (c # d /\ Registered(c) /\ Registered(d)) =>
            calls[c].user_node_id # calls[d].user_node_id
    /\ \A c \in Callers :
        Registered(c) =>
            /\ \A i \in NodesOf(calls[c].user_node_id, "user") :
                nodes[i].content = Text(AskOf(c))
            /\ Cardinality(NodesOf(calls[c].user_node_id, "user")) = 1
            /\ \A i \in NodesOf(calls[c].user_node_id, "assistant") :
                nodes[i].content = Text(ReplyOf(c))
            /\ Cardinality(NodesOf(calls[c].user_node_id, "assistant")) =
                    IF Answered(c) THEN 1 ELSE 0
    /\ (\A c \in Callers : calls[c].pc = "done") =>
        \A c \in Callers :
            \A i \in NodesOf(calls[c].user_node_id, "user")
                    \cup NodesOf(calls[c].user_node_id, "assistant") :
                nodes[i].active

\* Both user nodes were registered before a reply came, and the second
\* caller's reply came first.
C27_Witness ==
    /\ \A c \in Callers : calls[c].pc = "done"
    /\ Len(nodes) = 4
    /\ nodes[1] = Node(0, "user", Text("q1"), TRUE)
    /\ nodes[2] = Node(1, "user", Text("q2"), TRUE)
    /\ nodes[3] = Node(1, "assistant", Text("r2"), TRUE)
    /\ nodes[4] = Node(0, "assistant", Text("r1"), TRUE)

====
